---------------------------- MODULE Spec2Model ----------------------------
(***************************************************************************)
(* Model of the formwork design suite (src/app.py): the AS 3610.2 load     *)
(* combination calculator and the formwork system designer.                *)
(*                                                                         *)
(* Numbers.  The program computes with decimal quantities; the model keeps *)
(* them as exact fixed-point integers:                                     *)
(*   lengths span, width, spacing     in tenths of a metre   (dm)          *)
(*   concrete thickness               in hundredths of a metre (cm)        *)
(*   reinforcement percentage         in tenths of a percent               *)
(*   input loads G_f, Q_w, ...        in tenths of a kPa                   *)
(*   G_c                              in 10^-4 kPa                         *)
(*   combination components and the design load in 10^-7 kPa               *)
(*   load factors in hundredths, gamma_d in tenths                         *)
(* Quotients (joist spacing, self weight, deflections) are kept as exact   *)
(* fractions [num, den].  The arithmetic is exact: the rounding of the     *)
(* program's binary floating point is not modelled.  An optional value (a  *)
(* parameter that may be None, recommended_spacing) is None or Some(v).    *)
(***************************************************************************)
EXTENDS Integers, Sequences, FiniteSets, TLC

VARIABLES pc, args, ret, session_state

vars == <<pc, args, ret, session_state>>

\* Python's None, and a value that is not None
None == <<>>
Some(v) == <<v>>
Val(o) == o[1]

(***************************************************************************)
(* Exact fractions.                                                        *)
(***************************************************************************)
Frac(n, d) == [num |-> n, den |-> d]

\* a <= b for fractions with positive denominators
FracLeq(a, b) == a.num * b.den <= b.num * a.den

FracMin(a, b) == IF FracLeq(b, a) THEN b ELSE a

\* Mutant of Ceil: the quotient rounded down
Ceil_Floor(a, b) == a \div b

\* math.ceil(a / b) for a >= 0, b > 0
Ceil(a, b) == (a + b - 1) \div b

(***************************************************************************)
(* Enumerations (src/app.py 8-18).                                         *)
(***************************************************************************)
PERI_SKYDECK == "PERI Skydeck"
GRIDFLEX == "Gridflex"
ALPHADECK == "Alphadeck"
FormworkSystem == {PERI_SKYDECK, GRIDFLEX, ALPHADECK}

NO_SUPPORT == "No mid-support"
BEAM_SUPPORT == "Mid support under beam"
PANEL_SUPPORT == "Mid support under panel"
BOTH_SUPPORT == "Mid support under both panel and beam"
SkydeckSupportType == {NO_SUPPORT, BEAM_SUPPORT, PANEL_SUPPORT, BOTH_SUPPORT}

\* kPa -> 10^-7 kPa
KPA == 10000000

(***************************************************************************)
(* SYSTEM_SPECS (src/app.py 21-69).  For PERI Skydeck max_span and         *)
(* concrete_capacity are dictionaries keyed by the support type; for the   *)
(* other systems max_span is a float and there is no concrete_capacity.    *)
(***************************************************************************)
SYSTEM_SPECS ==
    (PERI_SKYDECK :> [
        max_span |-> (NO_SUPPORT :> 45 @@ BEAM_SUPPORT :> 60
                      @@ PANEL_SUPPORT :> 60 @@ BOTH_SUPPORT :> 60),
        min_span |-> 10,
        concrete_capacity |-> (NO_SUPPORT :> 43 @@ BEAM_SUPPORT :> 52
                               @@ PANEL_SUPPORT :> 90 @@ BOTH_SUPPORT :> 109),
        ultimate_capacity |-> 15 * KPA,
        serviceability_capacity |-> 10 * KPA,
        standard_spacings |-> <<9, 12, 15>>,
        decking_thickness |-> 21,
        decking_weight |-> 15,
        joist_weight |-> 10,
        max_deflection |-> 270,
        material |-> "Aluminum"])
    @@ (GRIDFLEX :> [
        max_span |-> [float |-> 36],
        min_span |-> 6,
        ultimate_capacity |-> 12 * KPA,
        serviceability_capacity |-> 8 * KPA,
        standard_spacings |-> <<6, 9, 12>>,
        decking_thickness |-> 18,
        decking_weight |-> 12,
        joist_weight |-> 8,
        max_deflection |-> 250,
        material |-> "Steel"])
    @@ (ALPHADECK :> [
        max_span |-> [float |-> 50],
        min_span |-> 12,
        ultimate_capacity |-> 18 * KPA,
        serviceability_capacity |-> 12 * KPA,
        standard_spacings |-> <<10, 12, 15, 18>>,
        decking_thickness |-> 24,
        decking_weight |-> 18,
        joist_weight |-> 12,
        max_deflection |-> 300,
        material |-> "Aluminum"])

\* isinstance(specs['max_span'], float): the flat systems hold a number,
\* kept as [float |-> n]; PERI Skydeck holds a dictionary
IsFloat(x) == DOMAIN x = {"float"}

\* max(d.values()) of a dictionary of numbers
MaxOfValues(d) ==
    CHOOSE m \in {d[k] : k \in DOMAIN d} : \A k \in DOMAIN d : d[k] <= m

\* Python truthiness of an optional number: None and 0 are false
Truthy(o) == o # None /\ Val(o) # 0

(***************************************************************************)
(* sorted(standard_spacings, reverse=True)                                 *)
(***************************************************************************)
RECURSIVE SortedReverseOf(_)
SortedReverseOf(S) ==
    IF S = {} THEN <<>>
    ELSE LET m == CHOOSE x \in S : \A y \in S : y <= x
         IN  <<m>> \o SortedReverseOf(S \ {m})

\* the catalog's spacing lists hold no duplicates
SortedReverse(seq) == SortedReverseOf({seq[i] : i \in DOMAIN seq})

(***************************************************************************)
(* The spacing loop (src/app.py 140-144): walk the spacings, largest       *)
(* first, and take the first one for which the load passes the 90% test.   *)
(* The test does not read the spacing.                                     *)
(***************************************************************************)
\* Mutant of SpacingTest: the 0.9 safety factor left out
SpacingTest_NoSafetyFactor(max_vertical_load, ultimate_capacity) ==
    max_vertical_load <= ultimate_capacity

SpacingTest(max_vertical_load, ultimate_capacity) ==
    max_vertical_load <= (ultimate_capacity * 9) \div 10

RECURSIVE SpacingLoop(_, _, _, _)
SpacingLoop(spacings, i, max_vertical_load, ultimate_capacity) ==
    IF i > Len(spacings) THEN None
    ELSE IF SpacingTest(max_vertical_load, ultimate_capacity) THEN Some(spacings[i])
    ELSE SpacingLoop(spacings, i + 1, max_vertical_load, ultimate_capacity)

RecommendedSpacing(specs, max_vertical_load) ==
    SpacingLoop(SortedReverse(specs.standard_spacings), 1,
                max_vertical_load, specs.ultimate_capacity)

(***************************************************************************)
(* get_skydeck_support_notes (src/app.py 187-195)                          *)
(***************************************************************************)
get_skydeck_support_notes(support_type) ==
    CASE support_type = NO_SUPPORT ->
           "System can support up to 430mm concrete without mid-supports"
      [] support_type = BEAM_SUPPORT ->
           "System can support up to 520mm concrete with beam supports"
      [] support_type = PANEL_SUPPORT ->
           "System can support up to 900mm concrete with panel supports"
      [] support_type = BOTH_SUPPORT ->
           "System can support up to 1090mm concrete with both beam and panel supports"
      [] OTHER -> ""

(***************************************************************************)
(* The error results of design_formwork_system (src/app.py 119-122,        *)
(* 129-131, 135-137, 147-149): the message's fixed text stands for it.     *)
(***************************************************************************)
ThicknessError == [error |-> "Concrete thickness exceeds capacity"]
SpanError == [error |-> "Span is outside the allowable range"]
LoadError == [error |-> "Vertical load exceeds system capacity"]
SpacingError == [error |-> "No standard joist spacing can support the applied loads"]

\* The support-specific branch is taken (src/app.py 113)
SupportBranch(system_type, skydeck_support) ==
    system_type = PERI_SKYDECK /\ skydeck_support # None

\* max_span as resolved at src/app.py 114 and 124
ResolvedMaxSpan(system_type, skydeck_support) ==
    LET specs == SYSTEM_SPECS[system_type]
    IN  IF SupportBranch(system_type, skydeck_support)
        THEN specs.max_span[Val(skydeck_support)]
        ELSE IF IsFloat(specs.max_span) THEN specs.max_span.float
             ELSE MaxOfValues(specs.max_span)

\* Mutant of ThicknessExceeds: a thickness equal to the capacity rejected
ThicknessExceeds_AtCapacity(system_type, skydeck_support, concrete_thickness) ==
    /\ SupportBranch(system_type, skydeck_support)
    /\ Truthy(concrete_thickness)
    /\ Val(concrete_thickness)
         >= SYSTEM_SPECS[system_type].concrete_capacity[Val(skydeck_support)]

\* The thickness check of src/app.py 118
ThicknessExceeds(system_type, skydeck_support, concrete_thickness) ==
    /\ SupportBranch(system_type, skydeck_support)
    /\ Truthy(concrete_thickness)
    /\ Val(concrete_thickness)
         > SYSTEM_SPECS[system_type].concrete_capacity[Val(skydeck_support)]

\* Mutant of SpanOutOfRange: the bounds exclusive
SpanOutOfRange_Exclusive(system_type, skydeck_support, span) ==
    \/ span <= SYSTEM_SPECS[system_type].min_span
    \/ span >= ResolvedMaxSpan(system_type, skydeck_support)

\* The span check of src/app.py 128
SpanOutOfRange(system_type, skydeck_support, span) ==
    \/ span < SYSTEM_SPECS[system_type].min_span
    \/ span > ResolvedMaxSpan(system_type, skydeck_support)

\* The capacity check of src/app.py 134
LoadExceeds(system_type, max_vertical_load) ==
    max_vertical_load > SYSTEM_SPECS[system_type].ultimate_capacity

(***************************************************************************)
(* The success record (src/app.py 151-185).  recommended_spacing is not a  *)
(* key of the program's dictionary; the model keeps it beside the result   *)
(* to state what the joist count was derived from.  width / 0 raises       *)
(* ZeroDivisionError.                                                      *)
(***************************************************************************)
SuccessResult(system_type, span, width, skydeck_support, recommended_spacing) ==
    LET specs == SYSTEM_SPECS[system_type]
        num_joists == Ceil(width, recommended_spacing) + 1
        actual_spacing == Frac(width, num_joists - 1)
        \* decking_weight + joist_weight / actual_spacing, in tenths of a kPa
        total_self_weight ==
            Frac(specs.decking_weight * width + 10 * specs.joist_weight * (num_joists - 1),
                 10 * width)
        max_allowed_deflection == Frac(span, specs.max_deflection)
        estimated_deflection ==
            FracMin(Frac(span, 400),
                    Frac(8 * max_allowed_deflection.num, 10 * max_allowed_deflection.den))
        result == [system |-> system_type,
                   span |-> span,
                   width |-> width,
                   joist_spacing |-> actual_spacing,
                   num_joists |-> num_joists,
                   self_weight |-> total_self_weight,
                   max_deflection |-> estimated_deflection,
                   max_allowed_deflection |-> max_allowed_deflection,
                   capacity_check |-> "OK",
                   material |-> specs.material,
                   notes |-> "Design completed per manufacturer specifications",
                   recommended_spacing |-> recommended_spacing]
    IN  IF num_joists - 1 = 0 THEN [exception |-> "ZeroDivisionError"]
        ELSE IF SupportBranch(system_type, skydeck_support)
        THEN result @@ [support_type |-> Val(skydeck_support),
                        max_concrete_thickness |->
                            specs.concrete_capacity[Val(skydeck_support)],
                        support_notes |->
                            get_skydeck_support_notes(Val(skydeck_support))]
        ELSE result

\* Mutant of design_formwork_system: the span check before the thickness check
design_formwork_system_SpanFirst(system_type, span, width, max_vertical_load, max_horizontal_load, skydeck_support, concrete_thickness) ==
    LET specs == SYSTEM_SPECS[system_type]
        recommended_spacing == RecommendedSpacing(specs, max_vertical_load)
    IN  IF SpanOutOfRange(system_type, skydeck_support, span)
        THEN SpanError
        ELSE IF ThicknessExceeds(system_type, skydeck_support, concrete_thickness)
        THEN ThicknessError
        ELSE IF LoadExceeds(system_type, max_vertical_load)
        THEN LoadError
        ELSE IF ~Truthy(recommended_spacing)
        THEN SpacingError
        ELSE SuccessResult(system_type, span, width, skydeck_support,
                           Val(recommended_spacing))

(***************************************************************************)
(* design_formwork_system (src/app.py 107-185), its checks in the order    *)
(* of the code: thickness (support branch only), span, ultimate capacity,  *)
(* spacing.                                                                *)
(***************************************************************************)
design_formwork_system(system_type, span, width, max_vertical_load, max_horizontal_load, skydeck_support, concrete_thickness) ==
    LET specs == SYSTEM_SPECS[system_type]
        recommended_spacing == RecommendedSpacing(specs, max_vertical_load)
    IN  IF ThicknessExceeds(system_type, skydeck_support, concrete_thickness)
        THEN ThicknessError
        ELSE IF SpanOutOfRange(system_type, skydeck_support, span)
        THEN SpanError
        ELSE IF LoadExceeds(system_type, max_vertical_load)
        THEN LoadError
        ELSE IF ~Truthy(recommended_spacing)
        THEN SpacingError
        ELSE SuccessResult(system_type, span, width, skydeck_support,
                           Val(recommended_spacing))

IsError(result) == "error" \in DOMAIN result
IsSuccess(result) == "capacity_check" \in DOMAIN result


(***************************************************************************)
(* calculate_concrete_load (src/app.py 71-76).  thickness in cm and        *)
(* reinforcement_percentage in tenths of a percent give G_c in 10^-4 kPa:  *)
(* base_density * thickness is 100 * 24 * cm, and reinforcement_load =     *)
(* 0.5 * reinforcement_percentage is 5 * tenths, in hundredths.            *)
(***************************************************************************)
base_density == 24

\* Mutant of calculate_concrete_load: a unit weight of 24.5 kN/m3
calculate_concrete_load_Density245(thickness, reinforcement_percentage) ==
    LET reinforcement_load == 5 * reinforcement_percentage
        G_c == 2450 * thickness + reinforcement_load * thickness
    IN  G_c

calculate_concrete_load(thickness, reinforcement_percentage) ==
    LET reinforcement_load == 5 * reinforcement_percentage
        G_c == (100 * base_density) * thickness + reinforcement_load * thickness
    IN  G_c

(***************************************************************************)
(* compute_combinations (src/app.py 78-105).  A combination is the pair    *)
(* <<vertical, horizontal>> in 10^-7 kPa.  L holds the loads in 10^-4 kPa, *)
(* the factors are hundredths and gamma_d is tenths; a combination that    *)
(* the code does not multiply by gamma_d is scaled by 10 (a factor of 1.0) *)
(* to the same unit.                                                       *)
(***************************************************************************)
comb_1(L, gamma_d) == <<10 * (135 * L.G_f), 0>>

comb_2(L, gamma_d) ==
    <<gamma_d * (120 * L.G_f + 150 * L.Q_w + 150 * L.Q_m + 100 * L.W_s),
      gamma_d * (150 * L.Q_h)>>

\* Mutant of comb_3: the ultimate wind combination multiplied by gamma_d
comb_3_Amplified(L, gamma_d) ==
    <<gamma_d * (120 * L.G_f + 100 * L.W_u + 150 * L.F_w), 0>>

comb_3(L, gamma_d) == <<10 * (120 * L.G_f + 100 * L.W_u + 150 * L.F_w), 0>>

comb_4(L, gamma_d) == <<10 * (90 * L.G_f + 100 * L.W_u + 150 * L.F_w), 0>>

comb_5(L, gamma_d) == <<10 * (100 * L.G_f + 110 * L.I), 0>>

comb_6(L, gamma_d) == <<gamma_d * (135 * L.G_f + 135 * L.G_c), 0>>

comb_7(L, gamma_d) ==
    <<gamma_d * (120 * L.G_f + 120 * L.G_c + 150 * L.Q_w + 150 * L.Q_m
                 + 100 * L.W_s + 150 * L.F_w + 150 * L.Q_x + 100 * L.P_c),
      gamma_d * (150 * L.Q_h)>>

comb_8(L, gamma_d) == <<10 * (100 * L.G_f + 100 * L.G_c + 110 * L.I), 0>>

comb_9(L, gamma_d) == <<gamma_d * (135 * L.G_f + 135 * L.G_c), 0>>

comb_10(L, gamma_d) ==
    <<gamma_d * (120 * L.G_f + 120 * L.G_c + 150 * L.Q_w + 150 * L.Q_m
                 + 100 * L.W_s + 150 * L.F_w + 150 * L.Q_x + 100 * L.P_c),
      gamma_d * (150 * L.Q_h)>>

comb_11(L, gamma_d) == <<10 * (120 * L.G_f + 120 * L.G_c + 100 * L.W_u), 0>>

comb_12(L, gamma_d) == <<10 * (100 * L.G_f + 100 * L.G_c + 110 * L.I), 0>>

\* The sequence with the entries equal to an earlier entry removed
RECURSIVE Dedup(_)
Dedup(seq) ==
    IF seq = <<>> THEN <<>>
    ELSE LET n == Len(seq)
             front == Dedup(SubSeq(seq, 1, n - 1))
         IN  IF \E i \in 1..(n - 1) : seq[i] = seq[n] THEN front
             ELSE Append(front, seq[n])

\* Mutant of StageCombinations: numerically equal combinations listed once
StageCombinations_Deduplicated(L, stage, gamma_d) ==
    IF stage = "1"
    THEN Dedup(<<comb_1(L, gamma_d), comb_2(L, gamma_d), comb_3(L, gamma_d),
                 comb_4(L, gamma_d), comb_5(L, gamma_d)>>)
    ELSE IF stage = "2"
    THEN Dedup(<<comb_6(L, gamma_d), comb_7(L, gamma_d), comb_8(L, gamma_d)>>)
    ELSE IF stage = "3"
    THEN Dedup(<<comb_9(L, gamma_d), comb_10(L, gamma_d), comb_11(L, gamma_d),
                 comb_12(L, gamma_d)>>)
    ELSE <<>>

\* The if / elif chain on the stage; any other stage leaves the list empty
StageCombinations(L, stage, gamma_d) ==
    IF stage = "1"
    THEN <<comb_1(L, gamma_d), comb_2(L, gamma_d), comb_3(L, gamma_d),
           comb_4(L, gamma_d), comb_5(L, gamma_d)>>
    ELSE IF stage = "2"
    THEN <<comb_6(L, gamma_d), comb_7(L, gamma_d), comb_8(L, gamma_d)>>
    ELSE IF stage = "3"
    THEN <<comb_9(L, gamma_d), comb_10(L, gamma_d), comb_11(L, gamma_d),
           comb_12(L, gamma_d)>>
    ELSE <<>>

\* Input loads arrive in tenths of a kPa, G_c in 10^-4 kPa
compute_combinations(G_f, G_c, Q_w, Q_m, Q_h, W_s, W_u, F_w, Q_x, P_c, I, stage, gamma_d) ==
    StageCombinations([G_f |-> 1000 * G_f, G_c |-> G_c, Q_w |-> 1000 * Q_w,
                       Q_m |-> 1000 * Q_m, Q_h |-> 1000 * Q_h,
                       W_s |-> 1000 * W_s, W_u |-> 1000 * W_u,
                       F_w |-> 1000 * F_w, Q_x |-> 1000 * Q_x,
                       P_c |-> 1000 * P_c, I |-> 1000 * I],
                      stage, gamma_d)

(***************************************************************************)
(* Calls of design_formwork_system.  The arguments are drawn around every  *)
(* limit of the catalog: each span limit, each concrete capacity and, for  *)
(* the chosen system, 90% and 100% of its ultimate capacity, each with the *)
(* values Delta steps below and above it.                                  *)
(***************************************************************************)
Delta == 1
MaxWidthSteps == 5

Around(S) == {b + d : b \in S, d \in (-Delta)..Delta}

SpanLimits ==
    {SYSTEM_SPECS[sys].min_span : sys \in FormworkSystem}
    \cup {ResolvedMaxSpan(sys, sup) :
            sys \in FormworkSystem, sup \in {Some(t) : t \in SkydeckSupportType}}

Spans == Around(SpanLimits)

ThicknessLimits ==
    {SYSTEM_SPECS[PERI_SKYDECK].concrete_capacity[t] : t \in SkydeckSupportType}

\* None, 0 (both skip the thickness check) and the values around the capacities
Thicknesses == {None, Some(0)} \cup {Some(t) : t \in Around(ThicknessLimits)}

LoadsOf(sys) ==
    {0} \cup Around({(SYSTEM_SPECS[sys].ultimate_capacity * 9) \div 10,
                     SYSTEM_SPECS[sys].ultimate_capacity})

\* The width input is at least 0.5 m (src/app.py 351); steps of 0.6 m
Widths == {6 * k : k \in 1..MaxWidthSteps}

\* The support type is chosen for PERI Skydeck (src/app.py 354-365); the
\* function itself accepts one for any system
SupportsOf(sys) ==
    IF sys = PERI_SKYDECK
    THEN {None} \cup {Some(t) : t \in SkydeckSupportType}
    ELSE {None, Some(NO_SUPPORT)}

NoSession == [k \in {} |-> None]

InitDesign ==
    /\ pc = "design"
    /\ \E sys \in FormworkSystem :
         args \in [system_type : {sys},
                   span : Spans,
                   width : Widths,
                   max_vertical_load : LoadsOf(sys),
                   max_horizontal_load : {5},
                   skydeck_support : SupportsOf(sys),
                   concrete_thickness : Thicknesses]
    /\ ret = None
    /\ session_state = NoSession

CallDesign ==
    /\ pc = "design"
    /\ ret' = design_formwork_system(args.system_type, args.span, args.width,
                                     args.max_vertical_load, args.max_horizontal_load,
                                     args.skydeck_support, args.concrete_thickness)
    /\ pc' = "designed"
    /\ UNCHANGED <<args, session_state>>

NextDesign == CallDesign

SpecDesign == InitDesign /\ [][NextDesign]_vars


(***************************************************************************)
(* The load inputs (src/app.py 218-233): number inputs in steps of 0.1     *)
(* (0.05 for the thickness, 0.5 for the reinforcement).  Of the seven      *)
(* secondary actions Q_h .. I, which default to 0, at most MaxSecondary    *)
(* are set (to 1.0) at a time.                                             *)
(***************************************************************************)
MaxGfSteps == 2
MaxSlabSteps == 1
MaxQwSteps == 2
MaxQmSteps == 1
MaxSecondary == 1

GfValues == {5 * k : k \in 0..MaxGfSteps}
SlabThicknesses == {20 * k : k \in 0..MaxSlabSteps}
Reinforcements == {10 * k : k \in 0..MaxSlabSteps}
QwValues == {10 * k : k \in 0..MaxQwSteps}
QmValues == {25 * k : k \in 0..MaxQmSteps}

SecondaryNames == {"Q_h", "W_s", "W_u", "F_w", "Q_x", "P_c", "I"}

SecondaryActions ==
    {[n \in SecondaryNames |-> IF n \in S THEN 10 ELSE 0] :
        S \in {T \in SUBSET SecondaryNames : Cardinality(T) <= MaxSecondary}}

GcValues ==
    {calculate_concrete_load(t, r) : t \in SlabThicknesses, r \in Reinforcements}

\* gamma_d: 1.3 and 1.0 are the program's two passes (src/app.py 268, 274)
Gammas == {10, 13, 20}

Stages == {"1", "2", "3"}

(***************************************************************************)
(* Calls of compute_combinations: one stage and one set of loads, computed *)
(* with two values of gamma_d, as the stage loop of main does for its      *)
(* critical and non-critical passes (src/app.py 266-275).                  *)
(***************************************************************************)
InitCombinations ==
    /\ pc = "combine"
    /\ args \in [G_f : GfValues, G_c : GcValues, Q_w : QwValues, Q_m : QmValues,
                 sec : SecondaryActions, stage : Stages,
                 gamma_a : Gammas, gamma_b : Gammas]
    /\ ret = None
    /\ session_state = NoSession

CombinationsOfCall(gamma_d) ==
    compute_combinations(args.G_f, args.G_c, args.Q_w, args.Q_m, args.sec.Q_h,
                         args.sec.W_s, args.sec.W_u, args.sec.F_w, args.sec.Q_x,
                         args.sec.P_c, args.sec.I, args.stage, gamma_d)

CallCombinations ==
    /\ pc = "combine"
    /\ ret' = [a |-> CombinationsOfCall(args.gamma_a),
               b |-> CombinationsOfCall(args.gamma_b)]
    /\ pc' = "combined"
    /\ UNCHANGED <<args, session_state>>

NextCombinations == CallCombinations

SpecCombinations == InitCombinations /\ [][NextCombinations]_vars

(***************************************************************************)
(* The load calculator of main (src/app.py 235-297).  A run of the script  *)
(* with the Calculate button pressed computes the three stages' critical   *)
(* and non-critical combinations, stores them in st.session_state and, in  *)
(* the same run, derives max_vertical_load from the stored results.  Any   *)
(* other run of the script derives max_vertical_load again.  args holds    *)
(* the values of the input widgets of the session.                         *)
(***************************************************************************)
LoadWidgets ==
    [G_f : GfValues, thickness : SlabThicknesses,
     reinforcement_percentage : Reinforcements,
     Q_w1 : QwValues, Q_w2 : QwValues, Q_w3 : QwValues, Q_m : QmValues,
     sec : SecondaryActions]

\* inputs (src/app.py 236-252)
LoadInputs(w) ==
    [G_f |-> w.G_f, thickness |-> w.thickness,
     reinforcement_percentage |-> w.reinforcement_percentage,
     G_c |-> calculate_concrete_load(w.thickness, w.reinforcement_percentage),
     Q_w1 |-> w.Q_w1, Q_w2 |-> w.Q_w2, Q_w3 |-> w.Q_w3, Q_m |-> w.Q_m,
     Q_h |-> w.sec.Q_h, W_s |-> w.sec.W_s, W_u |-> w.sec.W_u, F_w |-> w.sec.F_w,
     Q_x |-> w.sec.Q_x, P_c |-> w.sec.P_c, I |-> w.sec.I]

\* stages (src/app.py 256-260)
StagesOf(w) ==
    [stage \in Stages |->
        IF stage = "1"
        THEN [Q_w |-> w.Q_w1, description |-> "Prior to concrete placement"]
        ELSE IF stage = "2"
        THEN [Q_w |-> w.Q_w2, description |-> "During concrete placement"]
        ELSE [Q_w |-> w.Q_w3, description |-> "After concrete placement"]]

\* One pass of the stage loop (src/app.py 266-275)
CombinationsOfStage(w, stage, gamma_d) ==
    LET inputs == LoadInputs(w)
    IN  compute_combinations(inputs.G_f, inputs.G_c, StagesOf(w)[stage].Q_w,
                             inputs.Q_m, inputs.Q_h, inputs.W_s, inputs.W_u,
                             inputs.F_w, inputs.Q_x, inputs.P_c, inputs.I,
                             stage, gamma_d)

\* results (src/app.py 255-281)
LoadResults(w) ==
    [stage \in Stages |->
        [description |-> StagesOf(w)[stage].description,
         critical |-> CombinationsOfStage(w, stage, 13),
         non_critical |-> CombinationsOfStage(w, stage, 10)]]

\* max(...) of a non-empty set of numbers
Max(S) == CHOOSE m \in S : \A x \in S : x <= m

\* Mutant of MaxVerticalLoad: the maximum taken over the non-critical pass
MaxVerticalLoad_NonCritical(load_results) ==
    Max({Max({load_results[stage].non_critical[i][1] :
                i \in DOMAIN load_results[stage].non_critical}) :
         stage \in DOMAIN load_results})

\* Mutant of MaxVerticalLoad: the last stage's maximum alone
MaxVerticalLoad_LastStage(load_results) ==
    Max({load_results["3"].critical[i][1] :
            i \in DOMAIN load_results["3"].critical})

\* max_vertical_load (src/app.py 293-296)
MaxVerticalLoad(load_results) ==
    Max({Max({load_results[stage].critical[i][1] :
                i \in DOMAIN load_results[stage].critical}) :
         stage \in DOMAIN load_results})

\* Mutant of DisplayLoadResults: a max_vertical_load already stored is kept
DisplayLoadResults_KeepStored(ss) ==
    IF "load_results" \in DOMAIN ss
    THEN ss @@ [max_vertical_load |-> MaxVerticalLoad(ss.load_results)]
    ELSE ss

\* The display block that every run executes (src/app.py 289-297)
DisplayLoadResults(ss) ==
    IF "load_results" \in DOMAIN ss
    THEN [max_vertical_load |-> MaxVerticalLoad(ss.load_results)] @@ ss
    ELSE ss

\* Store in session state (src/app.py 284-286)
StoreLoadResults(ss, w) ==
    [load_results |-> LoadResults(w),
     load_inputs |-> LoadInputs(w),
     concrete_thickness |-> w.thickness] @@ ss

InitLoad ==
    /\ pc = "ui"
    /\ args \in LoadWidgets
    /\ ret = None
    /\ session_state = NoSession

\* A run with "Calculate Load Combinations" pressed
CalculateLoadCombinations ==
    /\ pc = "ui"
    /\ session_state' = DisplayLoadResults(StoreLoadResults(session_state, args))
    /\ UNCHANGED <<pc, args, ret>>

\* A run with no button pressed (a widget was changed)
Rerun ==
    /\ pc = "ui"
    /\ session_state' = DisplayLoadResults(session_state)
    /\ UNCHANGED <<pc, args, ret>>

NextLoad == CalculateLoadCombinations \/ Rerun

SpecLoad == InitLoad /\ [][NextLoad]_vars

(***************************************************************************)
(* The whole page (src/app.py 197-384) as a session: every user action is  *)
(* one run of the script, top to bottom.  A run first executes the load    *)
(* tab (store on Calculate, then the display block), then the designer     *)
(* tab, which returns at once while max_vertical_load is not in the        *)
(* session state, so that the Design button exists only after it is.       *)
(* pc names the kind of the last run; args and ret hold the arguments and  *)
(* the result of the last call of design_formwork_system.  The widgets     *)
(* take their default values but for the thickness, Q_w2, the system, the  *)
(* support type and the span.                                              *)
(***************************************************************************)
MaxUiThicknessSteps == 2
MaxUiQwSteps == 1
MaxUiSpanSteps == 3

UiLoadWidgets ==
    [G_f : {6},
     thickness : {10 * k : k \in 0..MaxUiThicknessSteps},
     reinforcement_percentage : {20},
     Q_w1 : {10},
     Q_w2 : {20 * k : k \in 0..MaxUiQwSteps},
     Q_w3 : {10},
     Q_m : {25},
     sec : {[n \in SecondaryNames |-> 0]}]

\* The designer's widgets (src/app.py 344-365): the support type is asked
\* for PERI Skydeck alone and is None otherwise
UiDesignWidgets ==
    {[system_type |-> sys, span |-> 15 * k, width |-> 50,
      skydeck_support |-> IF sys = PERI_SKYDECK THEN Some(t) ELSE None] :
        sys \in FormworkSystem, k \in 1..MaxUiSpanSteps, t \in SkydeckSupportType}

\* The load tab of one run (src/app.py 209-297): the store, when Calculate
\* is pressed, and then the display block
LoadTab(ss, calculate, w) ==
    DisplayLoadResults(IF calculate THEN StoreLoadResults(ss, w) ELSE ss)

\* The designer tab is left at once (src/app.py 338-340)
DesignerReturnsEarly(ss) == "max_vertical_load" \notin DOMAIN ss

\* The arguments of the call at src/app.py 376-384
DesignArguments(ss, d) ==
    [system_type |-> d.system_type,
     span |-> d.span,
     width |-> d.width,
     max_vertical_load |-> ss.max_vertical_load,
     max_horizontal_load |-> 5,
     skydeck_support |-> d.skydeck_support,
     concrete_thickness |->
        IF "concrete_thickness" \in DOMAIN ss THEN Some(ss.concrete_thickness)
        ELSE None]

DesignResultOf(a) ==
    design_formwork_system(a.system_type, a.span, a.width, a.max_vertical_load,
                           a.max_horizontal_load, a.skydeck_support,
                           a.concrete_thickness)

Init ==
    /\ pc = "start"
    /\ args = None
    /\ ret = None
    /\ session_state = NoSession

\* A run with "Calculate Load Combinations" pressed
UiCalculate ==
    /\ \E w \in UiLoadWidgets : session_state' = LoadTab(session_state, TRUE, w)
    /\ pc' = "calculated"
    /\ UNCHANGED <<args, ret>>

\* A run with "Design Formwork System" pressed: the button was rendered by
\* the run before, which therefore did not leave the designer tab early
UiDesign ==
    /\ ~DesignerReturnsEarly(session_state)
    /\ \E d \in UiDesignWidgets :
         LET ss == LoadTab(session_state, FALSE, None)
             a == DesignArguments(ss, d)
         IN  /\ ~DesignerReturnsEarly(ss)
             /\ args' = a
             /\ ret' = DesignResultOf(a)
             /\ session_state' = [design_result |-> DesignResultOf(a)] @@ ss
    /\ pc' = "designed"

\* A run with no button pressed (a widget was changed)
UiRerun ==
    /\ session_state' = LoadTab(session_state, FALSE, None)
    /\ pc' = "rerun"
    /\ UNCHANGED <<args, ret>>

Next == UiCalculate \/ UiDesign \/ UiRerun

Spec == Init /\ [][Next]_vars

(***************************************************************************)
(* Properties of design_formwork_system, stated over a finished call.      *)
(* The limits are read from the catalog here, not from the function.       *)
(***************************************************************************)
Designed == pc = "designed"

\* PERI Skydeck called with a support configuration
WithSupport == args.system_type = PERI_SKYDECK /\ args.skydeck_support # None

\* The concrete capacity of the call's support configuration
CapacityOfCall ==
    SYSTEM_SPECS[PERI_SKYDECK].concrete_capacity[Val(args.skydeck_support)]

ThicknessOver ==
    /\ WithSupport
    /\ args.concrete_thickness # None
    /\ Val(args.concrete_thickness) > CapacityOfCall

MinSpanOfCall == SYSTEM_SPECS[args.system_type].min_span

\* 4.5 m for PERI Skydeck without mid-support, 6.0 m for its other
\* configurations, the flat value for the other systems
MaxSpanOfCall ==
    IF args.system_type = PERI_SKYDECK
    THEN IF args.skydeck_support = Some(NO_SUPPORT) THEN 45 ELSE 60
    ELSE SYSTEM_SPECS[args.system_type].max_span.float

SpanOut == args.span < MinSpanOfCall \/ args.span > MaxSpanOfCall

UltimateOfCall == SYSTEM_SPECS[args.system_type].ultimate_capacity

\* 90% of the ultimate capacity (a whole number of 10^-7 kPa)
NinetyPercentOfCall == 9 * (UltimateOfCall \div 10)

LoadOver == args.max_vertical_load > UltimateOfCall

LoadOverNinety == args.max_vertical_load > NinetyPercentOfCall

LargestSpacingOfCall ==
    LET sp == SYSTEM_SPECS[args.system_type].standard_spacings
    IN  CHOOSE x \in {sp[i] : i \in DOMAIN sp} : \A i \in DOMAIN sp : sp[i] <= x

\* C1 (as amended): the result is the error of the first failing check in
\* the order thickness over capacity (PERI Skydeck with a support
\* configuration), span out of range, load over the ultimate capacity, no
\* spacing under the 90% rule; with no failing check it is a success.
C1_FirstFailingCheckInCodeOrder ==
    Designed =>
        /\ (ret = ThicknessError) <=> ThicknessOver
        /\ (ret = SpanError) <=> (~ThicknessOver /\ SpanOut)
        /\ (ret = LoadError) <=> (~ThicknessOver /\ ~SpanOut /\ LoadOver)
        /\ (ret = SpacingError) <=>
              (~ThicknessOver /\ ~SpanOut /\ ~LoadOver /\ LoadOverNinety)
        /\ IsSuccess(ret) <=>
              (~ThicknessOver /\ ~SpanOut /\ ~LoadOver /\ ~LoadOverNinety)

\* C1 witness: a call with the span out of range and the thickness over
\* the capacity has returned
C1_Witness_BothFail ==
    Designed /\ ThicknessOver /\ SpanOut /\ ret = ThicknessError

\* C1 (as claimed): the span check comes first, so a call whose span is out
\* of range and whose thickness exceeds the capacity returns the span error.
C1_Original_SpanErrorFirst ==
    (Designed /\ WithSupport /\ SpanOut /\ ThicknessOver) => ret = SpanError

\* C2: with thickness and load within limits, a span equal to min_span or
\* to the resolved max_span succeeds, and every span below min_span or above
\* the resolved max_span returns the span error.
C2_SpanBoundsInclusive ==
    (Designed /\ ~ThicknessOver /\ ~LoadOverNinety) =>
        /\ args.span \in {MinSpanOfCall, MaxSpanOfCall} => IsSuccess(ret)
        /\ (args.span < MinSpanOfCall \/ args.span > MaxSpanOfCall)
              => ret = SpanError

\* C2 witness: PERI Skydeck without mid-support designed at exactly 4.5 m
C2_Witness_AtMaxSpan ==
    /\ Designed
    /\ args.system_type = PERI_SKYDECK
    /\ args.skydeck_support = Some(NO_SUPPORT)
    /\ args.span = 45
    /\ IsSuccess(ret)

\* C3: a success has load <= 90% of the ultimate capacity and selects the
\* largest standard spacing; a load above 90% and up to 100% of the ultimate
\* capacity, with span and thickness passing, is the no-spacing error.
C3_NinetyPercentRule ==
    Designed =>
        /\ IsSuccess(ret) =>
              /\ args.max_vertical_load <= NinetyPercentOfCall
              /\ ret.recommended_spacing = LargestSpacingOfCall
        /\ (~ThicknessOver /\ ~SpanOut /\ LoadOverNinety /\ ~LoadOver)
              => ret = SpacingError

\* C3 witness: a success at exactly 90% of the ultimate capacity
C3_Witness_AtNinetyPercent ==
    Designed /\ IsSuccess(ret) /\ args.max_vertical_load = NinetyPercentOfCall

\* C4: PERI Skydeck with a support configuration never succeeds with the
\* thickness over the configuration's capacity, and a thickness equal to the
\* capacity is accepted.
C4_ThicknessCapacity ==
    (Designed /\ WithSupport /\ args.concrete_thickness # None) =>
        /\ Val(args.concrete_thickness) > CapacityOfCall => IsError(ret)
        /\ Val(args.concrete_thickness) = CapacityOfCall
              => /\ ret # ThicknessError
                 /\ (~SpanOut /\ ~LoadOverNinety) => IsSuccess(ret)

\* C4 witness: a success with the thickness exactly at the capacity
C4_Witness_AtCapacity ==
    /\ Designed
    /\ WithSupport
    /\ args.concrete_thickness = Some(CapacityOfCall)
    /\ IsSuccess(ret)

Calculated == pc = "ui" /\ "load_results" \in DOMAIN session_state

Classes == {"critical", "non_critical"}

\* The vertical components of one stage's combinations of one class
VerticalsOf(stage, class) ==
    LET combs == session_state.load_results[stage][class]
    IN  {combs[i][1] : i \in DOMAIN combs}

\* The largest critical vertical component of a stage
StageMaximum(stage) ==
    CHOOSE m \in VerticalsOf(stage, "critical") :
        \A v \in VerticalsOf(stage, "critical") : v <= m

\* C5: max_vertical_load is a vertical component of a critical combination
\* of some stage, and no combination of any stage, critical or non-critical,
\* has a larger vertical component.
C5_GoverningLoadDominates ==
    Calculated =>
        /\ \E stage \in Stages :
              session_state.max_vertical_load \in VerticalsOf(stage, "critical")
        /\ \A stage \in Stages, class \in Classes :
              \A v \in VerticalsOf(stage, class) :
                  v <= session_state.max_vertical_load

\* C5 witness: the governing load comes from stage 1 alone, and a
\* non-critical combination lies strictly below it
C5_Witness_StageOneGoverns ==
    /\ Calculated
    /\ session_state.max_vertical_load = StageMaximum("1")
    /\ StageMaximum("2") < StageMaximum("1")
    /\ StageMaximum("3") < StageMaximum("1")
    /\ \E v \in VerticalsOf("1", "non_critical") :
          0 < v /\ v < session_state.max_vertical_load

SessionKeysAfterCalculation ==
    {"load_results", "load_inputs", "concrete_thickness", "max_vertical_load"}

EarliestGoverningStage ==
    IF StageMaximum("1") = session_state.max_vertical_load THEN "1"
    ELSE IF StageMaximum("2") = session_state.max_vertical_load THEN "2"
    ELSE "3"

Scenario ==
    /\ Calculated
    /\ session_state.load_inputs.G_f = 5
    /\ session_state.load_inputs.thickness = 20
    /\ session_state.load_inputs.reinforcement_percentage = 10
    /\ session_state.load_inputs.Q_w2 = 20
    /\ session_state.load_inputs.Q_m = 25
    /\ \A n \in SecondaryNames : session_state.load_inputs[n] = 0

\* C9 (as amended): G_c = 24*t + 0.5*r*t, so that the concrete load of
\* t = 0.2, r = 1.0 is 4.9 and the scenario's combination B during
\* placement, with gamma_d = 1.3, is 17.199.
C9_ConcreteLoadDensity24 ==
    Calculated =>
        /\ session_state.load_inputs.G_c =
              2400 * session_state.load_inputs.thickness
              + 5 * session_state.load_inputs.reinforcement_percentage
                  * session_state.load_inputs.thickness
        /\ Scenario =>
              /\ session_state.load_inputs.G_c = 49000
              /\ session_state.load_results["2"].critical[2][1] = 171990000

\* C9 witness: the scenario has been calculated
C9_Witness_Scenario == Scenario

\* C9 (as claimed): G_c = 24.5*t + 0.5*r*t, the concrete load of t = 0.2,
\* r = 1.0 is 5.0 and the scenario's combination B is 17.355.
C9_Original_ConcreteLoadDensity245 ==
    Calculated =>
        /\ session_state.load_inputs.G_c =
              2450 * session_state.load_inputs.thickness
              + 5 * session_state.load_inputs.reinforcement_percentage
                  * session_state.load_inputs.thickness
        /\ Scenario =>
              /\ session_state.load_inputs.G_c = 50000
              /\ session_state.load_results["2"].critical[2][1] = 173550000

(***************************************************************************)
(* Properties of compute_combinations, stated over a finished pair of      *)
(* calls with gamma_a and gamma_b.                                         *)
(***************************************************************************)
Combined == pc = "combined"

\* The places of the combinations that the formula table multiplies by
\* gamma_d: B before placement, A and B during and after placement
AmplifiedPlaces == IF args.stage = "1" THEN {2} ELSE {1, 2}

\* The documented number of combinations of the call's stage
DocumentedCount ==
    IF args.stage = "1" THEN 5 ELSE IF args.stage = "2" THEN 3 ELSE 4

\* C7: the combinations that are not amplified are the same for both values
\* of gamma_d (combination A before placement being <<1.35 G_f, 0>>), and
\* each amplified combination is, in both components, gamma_d times a base
\* that is the same for both values.
C7_GammaInvariance ==
    Combined =>
        /\ DOMAIN ret.a = DOMAIN ret.b
        /\ \A i \in DOMAIN ret.a \ AmplifiedPlaces : ret.a[i] = ret.b[i]
        /\ args.stage = "1" => ret.a[1] = <<1350000 * args.G_f, 0>>
        /\ \A i \in AmplifiedPlaces, c \in {1, 2} :
              /\ ret.a[i][c] % args.gamma_a = 0
              /\ ret.b[i][c] % args.gamma_b = 0
              /\ ret.a[i][c] \div args.gamma_a = ret.b[i][c] \div args.gamma_b

\* C7 witness: before placement with ultimate wind, gamma_d 1.0 against 2.0:
\* the amplified combination differs, the wind combination does not
C7_Witness_TwoGammas ==
    /\ Combined
    /\ args.stage = "1"
    /\ args.gamma_a = 10
    /\ args.gamma_b = 20
    /\ args.G_f > 0
    /\ args.sec.W_u > 0
    /\ ret.a[2] # ret.b[2]
    /\ ret.a[3] = ret.b[3]

\* C8: every call returns the documented number of combinations of its
\* stage, equal entries included, each with a non-negative vertical
\* component.
C8_CombinationCount ==
    Combined =>
        /\ Len(ret.a) = DocumentedCount
        /\ Len(ret.b) = DocumentedCount
        /\ \A i \in DOMAIN ret.a : ret.a[i][1] >= 0
        /\ \A i \in DOMAIN ret.b : ret.b[i][1] >= 0

\* C8 witness: all loads zero before placement: five equal combinations
C8_Witness_AllZero ==
    /\ Combined
    /\ args.stage = "1"
    /\ args.G_f = 0 /\ args.G_c = 0 /\ args.Q_w = 0 /\ args.Q_m = 0
    /\ \A n \in SecondaryNames : args.sec[n] = 0
    /\ Len(ret.a) = 5
    /\ \A i \in DOMAIN ret.a : ret.a[i] = <<0, 0>>


(***************************************************************************)
(* Properties of the session.                                              *)
(***************************************************************************)
\* The largest critical vertical component of the stored load results
StoredCriticalMaximum ==
    CHOOSE m \in {StageMaximum(stage) : stage \in Stages} :
        \A stage \in Stages : StageMaximum(stage) <= m

\* C11: design_formwork_system is never invoked before a load calculation
\* has completed; the design load of every invocation is the maximum
\* critical vertical load of the load results stored last; and whenever
\* max_vertical_load is in the session state it is that maximum.
C11_DesignLoadIsCurrent ==
    /\ pc = "designed" =>
          /\ "load_results" \in DOMAIN session_state
          /\ args.max_vertical_load = StoredCriticalMaximum
          /\ session_state.design_result = ret
    /\ "design_result" \in DOMAIN session_state
          => "load_results" \in DOMAIN session_state
    /\ "max_vertical_load" \in DOMAIN session_state =>
          /\ "load_results" \in DOMAIN session_state
          /\ session_state.max_vertical_load = StoredCriticalMaximum

\* C11 witness: a design has run after the calculation of a slab of
\* non-zero thickness and has succeeded on the stored thickness and load
C11_Witness_DesignAfterCalculation ==
    /\ pc = "designed"
    /\ IsSuccess(ret)
    /\ args.concrete_thickness = Some(session_state.load_inputs.thickness)
    /\ args.max_vertical_load = session_state.max_vertical_load
    /\ session_state.load_inputs.thickness > 0

=============================================================================
